---- MODULE Spec2Model ----
(***************************************************************************)
(* A model of the weather lookup application: the city directory client    *)
(* (src/lib/cities.ts), the weather client and its forecast bucketing      *)
(* (src/lib/weather.ts) and the two client components                      *)
(* (src/components/cities-table.tsx).                                      *)
(*                                                                         *)
(* Strings that the code builds or takes apart (ids, dates) are modelled   *)
(* by what the code does to them.  Math.random() is a nondeterministic     *)
(* choice.  Every subsystem has its own specification; the variables of    *)
(* the other subsystems stay at their idle values.                         *)
(***************************************************************************)
EXTENDS Integers, Sequences, FiniteSets, TLC

VARIABLES
    fcPc,        \* processForecastData: "input" before the call, "done" after
    fcList,      \* its argument forecastList
    fcDaily,     \* the local dailyData, in insertion order
    fcOut        \* its return value

fcVars == <<fcPc, fcList, fcDaily, fcOut>>

VARIABLES
    dirPc,       \* the city-directory client: "idle", "fetchCities",
                 \* "getCityById" (awaiting the response) or "done"
    dirArgs,     \* the arguments of the call in progress
    dirReq,      \* the query parameters it sent
    dirResp,     \* the response it got
    dirResult    \* how its promise settled

dirVars == <<dirPc, dirArgs, dirReq, dirResp, dirResult>>

VARIABLES
    apiKey,      \* whether NEXT_PUBLIC_OPENWEATHER_API_KEY is configured
    fwCall,      \* the call of fetchWeather in progress: its position,
                 \* arguments, the current weather it holds and its promise
    fwSeen       \* how its two requests ended, "none" for one not answered

fwVars == <<apiKey, fwCall, fwSeen>>

VARIABLES
    wbBatch,     \* the call of fetchWeatherForCities in progress: its input,
                 \* the promise of every city and the promise of the call
    wbResp       \* the response each city's request got, kind "none" before

wbVars == <<wbBatch, wbResp>>

VARIABLES
    ts,          \* the state of CitiesTable: the useState values and the
                 \* debounced search term
    tLoads,      \* the calls of loadCities awaiting fetchCities, each with the
                 \* values its closure holds, in the order they were made
    tSuggest,    \* the suggestion requests awaiting fetchCities
    tBatches,    \* the calls of loadWeatherData awaiting fetchWeatherForCities
                 \* since the user last changed the list
    tEvents,     \* the number of user events so far
    tInOrder     \* the ids of the list that the responses to the calls of
                 \* loadCities made so far yield in the order of the calls

tVars == <<ts, tLoads, tSuggest, tBatches, tEvents, tInOrder>>

VARIABLES
    wd           \* the state of WeatherDisplay: its useState values

vars == <<fcVars, dirVars, fwVars, wbVars, tVars, wd>>

(***************************************************************************)
(* JavaScript values                                                       *)
(***************************************************************************)
\* an optional number is <<>> when the property is missing, <<v>> otherwise
Undefined == <<>>

\* a || b on numbers: 0 is falsy
Falsy(a) == a = 0

OrElse(a, b) == IF Falsy(a) THEN b ELSE a

\* (opt || 0) on an optional number
OrZero(opt) == IF opt = Undefined THEN 0 ELSE OrElse(opt[1], 0)

RECURSIVE SeqMin(_)
SeqMin(s) ==
    IF Len(s) = 1 THEN s[1]
    ELSE LET m == SeqMin(Tail(s)) IN IF s[1] < m THEN s[1] ELSE m

RECURSIVE SeqMax(_)
SeqMax(s) ==
    IF Len(s) = 1 THEN s[1]
    ELSE LET m == SeqMax(Tail(s)) IN IF s[1] > m THEN s[1] ELSE m

MinOf(a, b) == IF a < b THEN a ELSE b

(***************************************************************************)
(* Strings are sequences of characters.                                    *)
(***************************************************************************)
Digits == <<"0", "1", "2", "3", "4", "5", "6", "7", "8", "9">>

DigitValue(c) == CHOOSE d \in 0..9 : Digits[d + 1] = c

IsDigit(c) == \E d \in 0..9 : Digits[d + 1] = c

\* Number.prototype.toString of an integer
RECURSIVE NatToString(_)
NatToString(n) ==
    IF n < 10 THEN <<Digits[n + 1]>>
    ELSE NatToString(n \div 10) \o <<Digits[(n % 10) + 1]>>

IntToString(n) == IF n < 0 THEN <<"-">> \o NatToString(0 - n) ELSE NatToString(n)

\* String.prototype.startsWith
StartsWith(s, p) == Len(s) >= Len(p) /\ SubSeq(s, 1, Len(p)) = p

\* s.replace(p, ""): the first occurrence of p is removed
RemoveFirst(s, p) ==
    LET occ == {i \in 1..(Len(s) - Len(p) + 1) : SubSeq(s, i, i + Len(p) - 1) = p}
    IN  IF occ = {} \/ p = <<>> THEN s
        ELSE LET i == CHOOSE j \in occ : \A k \in occ : j <= k
             IN  SubSeq(s, 1, i - 1) \o SubSeq(s, i + Len(p), Len(s))

RECURSIVE DigitsValue(_, _)
DigitsValue(s, acc) ==
    IF s = <<>> \/ ~IsDigit(Head(s)) THEN acc
    ELSE DigitsValue(Tail(s), acc * 10 + DigitValue(Head(s)))

\* Number.parseInt(s): an optional sign and the longest prefix of digits;
\* NaN, here <<>>, when there is no digit (the ids hold no white space)
ParseInt(s) ==
    LET neg  == s # <<>> /\ Head(s) = "-"
        body == IF s # <<>> /\ Head(s) \in {"-", "+"} THEN Tail(s) ELSE s
    IN  IF body = <<>> \/ ~IsDigit(Head(body)) THEN <<>>
        ELSE IF neg THEN <<0 - DigitsValue(body, 0)>> ELSE <<DigitsValue(body, 0)>>

NaN == <<>>

(***************************************************************************)
(* Dates.  new Date(ms).toISOString().split("T")[0] is the proleptic       *)
(* Gregorian UTC date of the millisecond timestamp, here <<year, month,    *)
(* day>>; new Date("YYYY-MM-DD").getTime() is the timestamp of that date's *)
(* UTC midnight.                                                           *)
(***************************************************************************)
MsPerDay == 86400000

SecPerDay == 86400

CivilFromDays(days) ==
    LET z   == days + 719468
        era == z \div 146097
        doe == z - era * 146097
        yoe == (doe - doe \div 1460 + doe \div 36524 - doe \div 146096) \div 365
        doy == doe - (365 * yoe + yoe \div 4 - yoe \div 100)
        mp  == (5 * doy + 2) \div 153
        d   == doy - (153 * mp + 2) \div 5 + 1
        m   == IF mp < 10 THEN mp + 3 ELSE mp - 9
        y   == yoe + era * 400 + (IF m <= 2 THEN 1 ELSE 0)
    IN  <<y, m, d>>

DaysFromCivil(date) ==
    LET y   == date[1] - (IF date[2] <= 2 THEN 1 ELSE 0)
        m   == date[2]
        era == y \div 400
        yoe == y - era * 400
        doy == (153 * (IF m > 2 THEN m - 3 ELSE m + 9) + 2) \div 5 + date[3] - 1
        doe == yoe * 365 + yoe \div 4 - yoe \div 100 + doy
    IN  era * 146097 + doe - 719468

\* the date in a zone one hour east of UTC
ISODateLocal(ms) == CivilFromDays((ms + 3600000) \div MsPerDay)

\* new Date(ms).toISOString().split("T")[0]
ISODate(ms) == CivilFromDays(ms \div MsPerDay)

\* the timestamp of the date's midnight in a zone one hour east of UTC
DateParseLocal(date) == DaysFromCivil(date) * MsPerDay - 3600000

\* new Date(date).getTime()
DateParse(date) == DaysFromCivil(date) * MsPerDay

(***************************************************************************)
(* processForecastData (src/lib/weather.ts)                                *)
(***************************************************************************)
\* the forEach body: push item onto the group of its date, creating the
\* group at the end of dailyData when the date is new
GroupPush(daily, item) ==
    LET date == ISODate(item.dt * 1000)
        hit  == {i \in 1..Len(daily) : daily[i].date = date}
    IN  IF hit = {}
        THEN Append(daily, [date |-> date, items |-> <<item>>])
        ELSE [i \in 1..Len(daily) |->
                IF i \in hit
                THEN [daily[i] EXCEPT !.items = Append(@, item)]
                ELSE daily[i]]

RECURSIVE GroupByDay(_, _)
GroupByDay(daily, list) ==
    IF list = <<>> THEN daily
    ELSE GroupByDay(GroupPush(daily, Head(list)), Tail(list))

\* a reduce that counts a missing pop as certain rain: item.pop || 1
RECURSIVE PopSumMissingAsOne(_)
PopSumMissingAsOne(items) ==
    IF items = <<>> THEN 0
    ELSE (IF Head(items).pop = Undefined THEN 100 ELSE Head(items).pop[1])
         + PopSumMissingAsOne(Tail(items))

\* items.reduce((sum, item) => sum + (item.pop || 0), 0)
RECURSIVE PopSum(_)
PopSum(items) ==
    IF items = <<>> THEN 0
    ELSE OrZero(Head(items).pop) + PopSum(Tail(items))

MidIndex(items) == Len(items) \div 2

\* index of the "eve" sample, 0-based as in the code
EveIndex(items) == MinOf(Len(items) - 1, MidIndex(items) + 2)

\* the representative value of one field f ("temp" or "feels_like")
Snapshot(items, idx, f) == OrElse(items[idx + 1][f], items[MidIndex(items) + 1][f])

\* Math.min(0, ...temps)
MinTempFromZero(items) == MinOf(0, SeqMin([i \in 1..Len(items) |-> items[i].temp]))

MinTemp(items) == SeqMin([i \in 1..Len(items) |-> items[i].temp])

MaxTemp(items) == SeqMax([i \in 1..Len(items) |-> items[i].temp])

\* the record built for one [date, items] entry; pop is the quotient
\* num / den, kept exact
DayRecord(date, items) ==
    [ dt         |-> DateParse(date) \div 1000,
      temp       |-> [ day   |-> items[MidIndex(items) + 1].temp,
                       min   |-> MinTemp(items),
                       max   |-> MaxTemp(items),
                       night |-> Snapshot(items, Len(items) - 1, "temp"),
                       eve   |-> Snapshot(items, EveIndex(items), "temp"),
                       morn  |-> Snapshot(items, 0, "temp") ],
      feels_like |-> [ day   |-> items[MidIndex(items) + 1].feels_like,
                       night |-> Snapshot(items, Len(items) - 1, "feels_like"),
                       eve   |-> Snapshot(items, EveIndex(items), "feels_like"),
                       morn  |-> Snapshot(items, 0, "feels_like") ],
      pop        |-> [num |-> PopSum(items), den |-> Len(items)] ]

DailyData(forecastList) == GroupByDay(<<>>, forecastList)

processForecastData(forecastList) ==
    LET daily == DailyData(forecastList)
    IN  [i \in 1..Len(daily) |-> DayRecord(daily[i].date, daily[i].items)]

(***************************************************************************)
(* The city directory client (src/lib/cities.ts).  A city is modelled by   *)
(* its id, name, country, population and weather; latitude, longitude and  *)
(* timezone are copied or drawn like the others and read by no logic.      *)
(***************************************************************************)
MockPrefix == <<"m", "o", "c", "k", "-">>

CityWord == <<"C", "i", "t", "y", " ">>

NaNWord == <<"N", "a", "N">>

\* `mock-${k}`
MockId(k) == MockPrefix \o IntToString(k)

\* `City ${n}` for a number n that may be NaN
CityName(n) == CityWord \o (IF n = NaN THEN NaNWord ELSE IntToString(n[1]))

\* ["USA", "Canada", "UK", "Germany", "France"]
Countries == <<"USA", "Canada", "UK", "Germany", "France">>

\* Math.floor(Math.random() * 5)
CountryDraws == 0..4

\* a city without weather data
NoWeather == <<>>

\* the upstream responses: the request fails, the status is not OK, the body
\* is not JSON, the body has no records array, or the body has records and
\* nhits; a record may lack fields.coordinates or fields.population
FailedResponses ==
    { [kind |-> k, records |-> <<>>, nhits |-> 0] :
        k \in {"network_error", "not_ok", "not_json", "no_records"} }

Failed(resp) == resp.kind # "ok"

\* record => City, of fetchCities and getCityById alike
CityOfRecord(record) ==
    [ id         |-> record.recordid,
      name       |-> record.name,
      country    |-> record.country,
      population |-> OrZero(record.population),
      weather    |-> NoWeather ]

\* the placeholder city number k with the country drawn as draw (the
\* population is a further draw that nothing reads, kept at 0)
MockCity(k, draw) ==
    [ id         |-> MockId(k),
      name       |-> CityName(<<k + 1>>),
      country    |-> Countries[draw + 1],
      population |-> 0,
      weather    |-> NoWeather ]

Pending == [state |-> "pending", value |-> <<>>]

Resolved(v) == [state |-> "resolved", value |-> v]

Rejected == [state |-> "rejected", value |-> <<>>]

\* the defaults of the parameters of fetchCities
DefaultParams ==
    [page |-> 1, limit |-> 20, search |-> <<>>, sortField |-> "name",
     sortDirection |-> "asc", filters |-> <<>>]

\* the filters that get a refine.<field> parameter: those with a truthy value
RefinedFields(filters) == {f \in DOMAIN filters : filters[f] # ""}

\* query parameters whose offset is page * limit
FetchCitiesRequestFromPage(args) ==
    [ rows   |-> IntToString(args.limit),
      start  |-> IntToString(args.page * args.limit),
      q      |-> IF args.search = <<>> THEN <<>> ELSE <<args.search>>,
      sort   |-> IF args.sortDirection = "desc" THEN <<"-", args.sortField>>
                 ELSE <<args.sortField>>,
      refine |-> [f \in {g \in DOMAIN args.filters : args.filters[g] # ""} |-> args.filters[f]] ]

\* the query parameters of fetchCities; q is missing for an empty search
FetchCitiesRequest(args) ==
    [ rows   |-> IntToString(args.limit),
      start  |-> IntToString((args.page - 1) * args.limit),
      q      |-> IF args.search = <<>> THEN <<>> ELSE <<args.search>>,
      sort   |-> IF args.sortDirection = "desc" THEN <<"-", args.sortField>>
                 ELSE <<args.sortField>>,
      refine |-> [f \in RefinedFields(args.filters) |-> args.filters[f]] ]

\* the try block of fetchCities: TRUE when it throws
FetchCitiesThrows(resp) ==
    \/ Failed(resp)
    \/ \E i \in DOMAIN resp.records : ~resp.records[i].coordinates

\* a return that compares with <=
FetchCitiesReturnInclusive(args, resp) ==
    LET offset == (args.page - 1) * args.limit
        cities == [i \in DOMAIN resp.records |-> CityOfRecord(resp.records[i])]
    IN  Resolved([ cities  |-> cities,
                   hasMore |-> offset + Len(cities) <= resp.nhits,
                   total   |-> resp.nhits ])

FetchCitiesReturn(args, resp) ==
    LET offset == (args.page - 1) * args.limit
        cities == [i \in DOMAIN resp.records |-> CityOfRecord(resp.records[i])]
    IN  Resolved([ cities  |-> cities,
                   hasMore |-> offset + Len(cities) < resp.nhits,
                   total   |-> resp.nhits ])

\* a catch block that passes the error on
FetchCitiesRethrow(args, draws) == Rejected

\* the catch block of fetchCities
FetchCitiesCatch(args, draws) ==
    LET offset == (args.page - 1) * args.limit
    IN  Resolved([ cities  |-> [i \in 1..args.limit |-> MockCity(i - 1 + offset, draws[i])],
                   hasMore |-> args.page < 5,
                   total   |-> 100 ])

fetchCities(args, resp, draws) ==
    IF FetchCitiesThrows(resp)
    THEN FetchCitiesCatch(args, draws)
    ELSE FetchCitiesReturn(args, resp)

\* the try block of getCityById: TRUE when it throws
GetCityThrows(resp) ==
    \/ Failed(resp)
    \/ resp.records # <<>> /\ ~resp.records[1].coordinates

Null == <<>>

GetCityReturn(resp) ==
    IF resp.records = <<>> THEN Resolved(Null)
    ELSE Resolved(<<CityOfRecord(resp.records[1])>>)

\* a catch block that makes up a city for every id
GetCityCatchAny(id, draw) ==
    LET idNumber == ParseInt(RemoveFirst(id, MockPrefix))
    IN  Resolved(<<[ id         |-> id,
                     name       |-> CityName(IF idNumber = NaN THEN NaN
                                             ELSE <<idNumber[1] + 1>>),
                     country    |-> Countries[draw + 1],
                     population |-> 0,
                     weather    |-> NoWeather ]>>)

\* a catch block that names the city by the number of its id: `City ${idNumber}`
GetCityCatchNumberAsName(id, draw) ==
    IF StartsWith(id, MockPrefix)
    THEN LET idNumber == ParseInt(RemoveFirst(id, MockPrefix))
         IN  Resolved(<<[ id         |-> id,
                          name       |-> CityName(idNumber),
                          country    |-> Countries[draw + 1],
                          population |-> 0,
                          weather    |-> NoWeather ]>>)
    ELSE Resolved(Null)

\* the catch block of getCityById; NaN + 1 is NaN
GetCityCatch(id, draw) ==
    IF StartsWith(id, MockPrefix)
    THEN LET idNumber == ParseInt(RemoveFirst(id, MockPrefix))
         IN  Resolved(<<[ id         |-> id,
                          name       |-> CityName(IF idNumber = NaN THEN NaN
                                                  ELSE <<idNumber[1] + 1>>),
                          country    |-> Countries[draw + 1],
                          population |-> 0,
                          weather    |-> NoWeather ]>>)
    ELSE Resolved(Null)

\* the promise of getCityById: <<city>> or Null
getCityById(id, resp, draw) ==
    IF GetCityThrows(resp) THEN GetCityCatch(id, draw) ELSE GetCityReturn(resp)

\* CityPage: what the detail page shows for the result of getCityById
CityPage(city) == IF city = Null THEN "City not found" ELSE "city"

(***************************************************************************)
(* fetchWeather and getMockWeatherData (src/lib/weather.ts).  A call is a  *)
(* record: pc is "current" or "forecast" while it awaits that response and *)
(* "done" when its promise has settled.  Every part of a result carries    *)
(* where it comes from.                                                    *)
(***************************************************************************)
MockForecastDays == 7

\* tempUnit
TempUnit(units) == IF units = "metric" THEN 20 ELSE 68

\* windUnit
WindUnit(units) == IF units = "metric" THEN 5 ELSE 11

\* the draws of one forecast day: Math.floor(Math.random() * 5), * 8 and
\* * 3 and Math.random(), all at their least or all at their greatest value
MockDayDraws ==
    { [day |-> 0, min |-> 0, max |-> 0, night |-> 0, pop |-> [num |-> 0, den |-> 1]],
      [day |-> 4, min |-> 4, max |-> 7, night |-> 2, pop |-> [num |-> 99, den |-> 100]] }

\* Math.floor(Date.now() / 1000)
NowValues == {0, 43200}

MockCurrent(units, now) ==
    [ source |-> "mock",
      units  |-> units,
      name   |-> "London",
      dt     |-> now,
      main   |-> [ temp       |-> TempUnit(units),
                   feels_like |-> TempUnit(units) - 2,
                   temp_min   |-> TempUnit(units) - 3,
                   temp_max   |-> TempUnit(units) + 3 ],
      wind   |-> WindUnit(units) ]

MockForecastDay(units, now, i, draw) ==
    [ dt         |-> now + i * SecPerDay,
      temp       |-> [ day   |-> TempUnit(units) + draw.day,
                       min   |-> TempUnit(units) - draw.min,
                       max   |-> TempUnit(units) + draw.max,
                       night |-> TempUnit(units) - draw.night,
                       eve   |-> TempUnit(units),
                       morn  |-> TempUnit(units) - 2 ],
      feels_like |-> [ day   |-> TempUnit(units) - 1,
                       night |-> TempUnit(units) - 3,
                       eve   |-> TempUnit(units) - 1,
                       morn  |-> TempUnit(units) - 4 ],
      pop        |-> draw.pop ]

\* draws is the sequence of the seven days' draws
getMockWeatherData(units, now, draws) ==
    [ current        |-> MockCurrent(units, now),
      forecast       |-> [i \in 1..MockForecastDays |->
                            MockForecastDay(units, now, i - 1, draws[i])],
      forecastSource |-> "mock",
      units          |-> units ]

\* a catch block that keeps the current weather it already has
FetchWeatherCatchPartial(call, now, draws) ==
    [call EXCEPT
        !.pc = "done",
        !.result = Resolved([getMockWeatherData(call.units, now, draws) EXCEPT
                                !.current = IF call.current.source = "upstream"
                                            THEN call.current ELSE @])]

\* a catch block that throws the error on to the caller
FetchWeatherCatchRethrow(call, now, draws) ==
    [call EXCEPT !.pc = "done", !.result = Rejected]

\* the catch block of fetchWeather, and its early return without an API key
FetchWeatherCatch(call, now, draws) ==
    [call EXCEPT !.pc = "done",
                 !.result = Resolved(getMockWeatherData(call.units, now, draws))]

NoCurrent == [source |-> "none"]

NoCall == [pc |-> "idle", units |-> "metric", current |-> NoCurrent, result |-> Pending]

\* fetchWeather up to its first await
FetchWeatherStart(units, key, now, draws) ==
    LET call == [pc |-> "current", units |-> units, current |-> NoCurrent, result |-> Pending]
    IN  IF ~key THEN FetchWeatherCatch(call, now, draws) ELSE call

\* the response of the current-weather request arrives
FetchWeatherOnCurrent(call, resp, now, draws) ==
    IF resp.kind # "ok"
    THEN FetchWeatherCatch(call, now, draws)
    ELSE [call EXCEPT !.pc = "forecast",
                      !.current = [ source |-> "upstream", units |-> call.units,
                                    name |-> resp.name, dt |-> resp.dt,
                                    main |-> resp.main, wind |-> resp.wind ]]

\* the response of the forecast request arrives; a body without a list, or
\* with an entry that lacks dt or main, makes processForecastData throw
FetchWeatherOnForecast(call, resp, now, draws) ==
    IF resp.kind # "ok"
    THEN FetchWeatherCatch(call, now, draws)
    ELSE [call EXCEPT !.pc = "done",
                      !.result = Resolved([ current        |-> call.current,
                                            forecast       |-> processForecastData(resp.list),
                                            forecastSource |-> "upstream",
                                            units          |-> call.units ])]

(***************************************************************************)
(* fetchWeatherForCities (src/lib/cities.ts; src/lib/weather.ts holds the  *)
(* same function).  Temperatures of a response are in tenths of a degree.  *)
(***************************************************************************)
\* Math.round: floor(x + 0.5)
MathRound(tenths) == (tenths + 5) \div 10

\* the weather field built from a response body
WeatherOfResponse(resp) ==
    <<[ temp        |-> MathRound(resp.main.temp),
        high        |-> MathRound(resp.main.temp_max),
        low         |-> MathRound(resp.main.temp_min),
        description |-> resp.description,
        icon        |-> resp.icon ]>>

\* the placeholder weather of a city when no API key is configured:
\* Math.round(15 + Math.random() * 10) and the like, all draws at their
\* least or all at their greatest value
PlaceholderWeatherDraws ==
    { [temp |-> 15, high |-> 20, low |-> 10, description |-> "Clear", icon |-> "01d"],
      [temp |-> 25, high |-> 30, low |-> 15, description |-> "Rainy", icon |-> "10d"] }

\* a catch block that substitutes placeholder weather
CityWeatherCatchPlaceholder(city) ==
    [city EXCEPT !.weather =
        <<[temp |-> 15, high |-> 20, low |-> 10, description |-> "Clear", icon |-> "01d"]>>]

\* the inner catch block: the city as it was
CityWeatherCatch(city) == city

\* the callback of cities.map once its response is there: a failed fetch,
\* a status that is not OK, a body that is not JSON or has no main or no
\* weather entry all throw inside the inner try block
CityWeatherSettle(city, resp) ==
    IF resp.kind # "ok"
    THEN CityWeatherCatch(city)
    ELSE [city EXCEPT !.weather = WeatherOfResponse(resp)]

\* what a fulfilled Promise.all yields in arrival order
BatchValuesByArrival(batch) ==
    [k \in 1..Len(batch.order) |-> batch.slots[batch.order[k]].value]

\* what a fulfilled Promise.all yields: the values in input order
BatchValues(batch) ==
    [i \in 1..Len(batch.input) |-> batch.slots[i].value]

NoBatch == [pc |-> "idle", input |-> <<>>, slots |-> <<>>, order |-> <<>>, result |-> Pending]

\* fetchWeatherForCities up to its await; draws is one draw per city.  With
\* no city there is nothing to await
BatchStart(cities, key, draws) ==
    IF ~key
    THEN [ pc     |-> "done",
           input  |-> cities,
           slots  |-> <<>>,
           order  |-> <<>>,
           result |-> Resolved([i \in 1..Len(cities) |->
                                  [cities[i] EXCEPT !.weather = <<draws[i]>>]]) ]
    ELSE LET batch == [ pc     |-> "pending",
                        input  |-> cities,
                        slots  |-> [i \in 1..Len(cities) |-> Pending],
                        order  |-> <<>>,
                        result |-> Pending ]
         IN  IF cities = <<>>
             THEN [batch EXCEPT !.pc = "done", !.result = Resolved(BatchValues(batch))]
             ELSE batch

\* the response of city i arrives; the call returns once every city's
\* promise is fulfilled
BatchOnResponse(batch, i, resp) ==
    LET b == [batch EXCEPT !.slots[i] = Resolved(CityWeatherSettle(batch.input[i], resp)),
                           !.order = Append(@, i)]
    IN  IF \A j \in 1..Len(b.slots) : b.slots[j].state = "resolved"
        THEN [b EXCEPT !.pc = "done", !.result = Resolved(BatchValues(b))]
        ELSE b

(***************************************************************************)
(* CitiesTable (src/components/cities-table.tsx).  An event (a user        *)
(* action, a timer, a settled promise) updates the state; React renders    *)
(* once for the updates of one event and then runs the effects whose       *)
(* dependencies changed, each with the values of that render.  An action   *)
(* of the model is one event together with the effects it sets off.        *)
(***************************************************************************)
\* limit: 20 of loadCities, scaled down
PageLimit == 2

\* limit: 5 of the suggestions effect
SuggestLimit == 5

MountState ==
    [ cities          |-> <<>>,
      loading         |-> TRUE,
      error           |-> "null",
      page            |-> 1,
      hasMore         |-> TRUE,
      searchTerm      |-> <<>>,
      debounced       |-> <<>>,
      suggestions     |-> <<>>,
      showSuggestions |-> FALSE,
      sortField       |-> "name",
      sortDirection   |-> "asc",
      filters         |-> <<>>,
      weatherLoading  |-> FALSE ]

\* the params object that loadCities builds in the render with state st
LoadParams(st) ==
    [ page          |-> st.page,
      limit         |-> PageLimit,
      search        |-> st.debounced,
      sortField     |-> st.sortField,
      sortDirection |-> st.sortDirection,
      filters       |-> st.filters ]

\* the params object of the suggestions effect; the rest are the defaults
SuggestParams(st) ==
    [DefaultParams EXCEPT !.page = 1, !.limit = SuggestLimit, !.search = st.searchTerm]

\* updatedCities.find((c) => c.id === city.id) || city
MergeCity(city, updatedCities) ==
    LET hit == {k \in 1..Len(updatedCities) : updatedCities[k].id = city.id}
    IN  IF hit = {} THEN city
        ELSE updatedCities[CHOOSE k \in hit : \A j \in hit : k <= j]

\* setCities(updatedCities): the list becomes the result of the call
MergeCitiesResultOnly(prevCities, updatedCities) == updatedCities

\* prevCities.map(...)
MergeCities(prevCities, updatedCities) ==
    [i \in 1..Len(prevCities) |-> MergeCity(prevCities[i], updatedCities)]

\* cities.filter((city) => !city.weather)
CitiesToUpdate(cities) == SelectSeq(cities, LAMBDA c : c.weather = NoWeather)

\* one draw for each of n cities
SameDraws(n, draw) == [i \in 1..n |-> draw]

\* an effect that does not look at weatherLoading
WeatherEffectUnguarded(st, batches, key, draw) ==
    IF st.cities = <<>> THEN [state |-> st, batches |-> batches]
    ELSE LET todo == CitiesToUpdate(st.cities)
             b    == BatchStart(todo, key, SameDraws(Len(todo), draw))
         IN  IF todo = <<>> THEN [state |-> st, batches |-> batches]
             ELSE IF b.pc = "done"
             THEN [ state   |-> [st EXCEPT !.cities = MergeCities(@, b.result.value)],
                    batches |-> batches ]
             ELSE [ state   |-> [st EXCEPT !.weatherLoading = TRUE],
                    batches |-> Append(batches, b) ]

\* loadWeatherData, run by the weather effect in the render with state st.
\* The result is the state and the calls awaiting fetchWeatherForCities.
\* Without an API key fetchWeatherForCities is settled when called: the
\* merge follows at once, and the effect runs again for the merged list
RECURSIVE WeatherEffect(_, _, _, _)
WeatherEffect(st, batches, key, draw) ==
    IF st.cities = <<>> \/ st.weatherLoading THEN [state |-> st, batches |-> batches]
    ELSE LET todo == CitiesToUpdate(st.cities)
             b    == BatchStart(todo, key, SameDraws(Len(todo), draw))
         IN  IF todo = <<>> THEN [state |-> st, batches |-> batches]
             ELSE IF b.pc = "done"
             THEN WeatherEffect([st EXCEPT !.cities = MergeCities(@, b.result.value)],
                                batches, key, draw)
             ELSE [ state   |-> [st EXCEPT !.weatherLoading = TRUE],
                    batches |-> Append(batches, b) ]

\* the effect that calls loadCities: it runs when one of page,
\* debouncedSearchTerm, sortField, sortDirection and filters changed;
\* setFilters always passes a new object
LoadEffectRuns(old, new, filtersSet) ==
    \/ new.page # old.page
    \/ new.debounced # old.debounced
    \/ new.sortField # old.sortField
    \/ new.sortDirection # old.sortDirection
    \/ filtersSet

\* loadCities up to its await; loads holds the params of the calls made
LoadEffect(old, new, filtersSet, loads) ==
    IF LoadEffectRuns(old, new, filtersSet)
    THEN [ state |-> [new EXCEPT !.loading = TRUE, !.error = "null"],
           loads |-> Append(loads, LoadParams(new)) ]
    ELSE [state |-> new, loads |-> loads]

\* the suggestions effect, which runs when searchTerm changed
SuggestEffect(old, new, suggest) ==
    IF new.searchTerm = old.searchTerm THEN [state |-> new, suggest |-> suggest]
    ELSE IF Len(new.searchTerm) > 1
    THEN [state |-> new, suggest |-> Append(suggest, SuggestParams(new))]
    ELSE [ state   |-> [new EXCEPT !.suggestions = <<>>, !.showSuggestions = FALSE],
           suggest |-> suggest ]

\* the effects of one render, in the order of the component: old is the
\* state of the previous render, new the state with the event's updates;
\* filtersSet and citiesSet tell whether setFilters and setCities were called
RunEffects(old, new, filtersSet, citiesSet, loads, suggest, batches, key, draw) ==
    LET l == LoadEffect(old, new, filtersSet, loads)
        g == SuggestEffect(old, l.state, suggest)
        w == IF citiesSet THEN WeatherEffect(g.state, batches, key, draw)
             ELSE [state |-> g.state, batches |-> batches]
    IN  [state |-> w.state, loads |-> l.loads, suggest |-> g.suggest, batches |-> w.batches]

\* the callback of the IntersectionObserver of the last row.  The callback
\* ref replaces the observer in every render in which loading is false and
\* disconnects it when loading turns true, so that an observer watches the
\* last row exactly when loading is false, with the hasMore of that render
ObserverWatches(st) == ~st.loading /\ st.cities # <<>>

Intersect(st) == IF st.hasMore THEN [st EXCEPT !.page = @ + 1] ELSE st

\* a handler without setPage(1)
handleSortKeepsPage(st, field) ==
    IF st.sortField = field
    THEN [st EXCEPT !.sortDirection = IF @ = "asc" THEN "desc" ELSE "asc"]
    ELSE [st EXCEPT !.sortField = field, !.sortDirection = "asc"]

handleSort(st, field) ==
    IF st.sortField = field
    THEN [st EXCEPT !.sortDirection = IF @ = "asc" THEN "desc" ELSE "asc", !.page = 1]
    ELSE [st EXCEPT !.sortField = field, !.sortDirection = "asc", !.page = 1]

\* { ...prev, [field]: value }
WithField(filters, field, value) ==
    [f \in (DOMAIN filters) \cup {field} |-> IF f = field THEN value ELSE filters[f]]

\* delete newFilters[field]
WithoutField(filters, field) ==
    [f \in (DOMAIN filters) \ {field} |-> filters[f]]

\* a handler that forgets the spread of prev: { [field]: value }
handleFilterAlone(st, field, value) ==
    [st EXCEPT !.filters = [f \in {field} |-> value], !.page = 1]

handleFilter(st, field, value) ==
    [st EXCEPT !.filters = WithField(@, field, value), !.page = 1]

clearFilter(st, field) ==
    [st EXCEPT !.filters = WithoutField(@, field), !.page = 1]

handleSearchChange(st, value) == [st EXCEPT !.searchTerm = value]

selectSuggestion(st, city) ==
    [st EXCEPT !.searchTerm = city.name, !.suggestions = <<>>,
               !.showSuggestions = FALSE, !.page = 1]

clearSearch(st) ==
    [st EXCEPT !.searchTerm = <<>>, !.suggestions = <<>>,
               !.showSuggestions = FALSE, !.page = 1]

\* useDebounce: the timer of the last change of searchTerm runs out
DebounceElapsed(st) == [st EXCEPT !.debounced = st.searchTerm]

\* loadCities after its await, for the call with the params load
LoadSettled(st, load, result) ==
    IF result.state = "rejected"
    THEN [st EXCEPT !.error = "Failed to load cities. Please try again.",
                    !.loading = FALSE]
    ELSE [st EXCEPT !.cities = IF load.page = 1 THEN result.value.cities
                               ELSE @ \o result.value.cities,
                    !.hasMore = result.value.hasMore,
                    !.loading = FALSE]

\* the then and catch callbacks of the suggestions effect
SuggestSettled(st, result) ==
    IF result.state = "rejected" THEN st
    ELSE [st EXCEPT !.suggestions = result.value.cities, !.showSuggestions = TRUE]

\* a continuation that leaves weatherLoading set when the call succeeded
WeatherSettledStillLoading(st, result) ==
    IF result.state = "rejected" THEN [st EXCEPT !.weatherLoading = FALSE]
    ELSE [st EXCEPT !.cities = MergeCities(@, result.value)]

\* loadWeatherData after its await
WeatherSettled(st, result) ==
    IF result.state = "rejected" THEN [st EXCEPT !.weatherLoading = FALSE]
    ELSE [st EXCEPT !.cities = MergeCities(@, result.value), !.weatherLoading = FALSE]

(***************************************************************************)
(* Bounds and input sets of the forecast specification                     *)
(***************************************************************************)
MaxSamples == 3

\* sample times: the last second of 1969-12-31, the first and the last
\* second of 1970-01-01
DtValues == {0 - 1, 0, 86399}

TempValues == {0 - 2, 0, 3}

FeelsValues == {0, 4}

\* precipitation probability in percent; the field may be missing
PopValues == {Undefined, <<50>>}

Samples == [dt : DtValues, temp : TempValues, feels_like : FeelsValues, pop : PopValues]

ForecastIdle ==
    /\ fcPc = "idle"
    /\ fcList = <<>>
    /\ fcDaily = <<>>
    /\ fcOut = <<>>

ForecastInit ==
    /\ fcPc = "input"
    /\ \E n \in 0..MaxSamples : fcList \in [1..n -> Samples]
    /\ fcDaily = <<>>
    /\ fcOut = <<>>

\* pop in hundredths: missing, 0, 0.5 and 1
PopRange == {Undefined, <<0>>, <<50>>, <<100>>}

\* samples that differ in their day and their pop only
PopSamples == [dt : DtValues, temp : {0}, feels_like : {0}, pop : PopRange]

ForecastPopInit ==
    /\ fcPc = "input"
    /\ \E n \in 0..MaxSamples : fcList \in [1..n -> PopSamples]
    /\ fcDaily = <<>>
    /\ fcOut = <<>>

ProcessForecast ==
    /\ fcPc = "input"
    /\ fcPc' = "done"
    /\ fcDaily' = DailyData(fcList)
    /\ fcOut' = processForecastData(fcList)
    /\ UNCHANGED fcList

(***************************************************************************)
(* Bounds, input sets and actions of the directory client specification    *)
(***************************************************************************)
MaxPage == 6

MaxLimit == 2

MaxRecords == 2

MaxHits == 3

RecPrefix == <<"r", "e", "c">>

\* the record ids of the directory
RecId(k) == RecPrefix \o IntToString(k)

UpstreamRecords ==
    [ recordid    : {RecId(0), RecId(1)},
      name        : {<<"O", "s", "l", "o">>},
      country     : {"Norway"},
      coordinates : BOOLEAN,
      population  : {Undefined, <<1000>>} ]

OkResponses ==
    UNION { [kind : {"ok"}, records : [1..n -> UpstreamRecords], nhits : 0..MaxHits] :
              n \in 0..MaxRecords }

\* ids asked of getCityById: placeholder ids, a record id, and ids that
\* start with the placeholder prefix and go on with no or another number
LookupIds ==
    { MockId(0), MockId(7), MockId(19), RecId(0), RecId(1), MockPrefix,
      MockPrefix \o <<"x", "1">>, MockPrefix \o <<"4", "x">>, MockPrefix \o <<"-", "3">>,
      <<"m", "o", "c", "k">> }

NoResponse == [kind |-> "none", records |-> <<>>, nhits |-> 0]

NoRequest == [rows |-> <<>>, start |-> <<>>, q |-> <<>>, sort |-> <<>>, refine |-> <<>>]

NoArgs ==
    [fn |-> "none", page |-> 0, limit |-> 0, id |-> <<>>, search |-> <<>>,
     sortField |-> "", sortDirection |-> "", filters |-> <<>>]

DirIdle ==
    /\ dirPc = "idle"
    /\ dirArgs = NoArgs
    /\ dirReq = NoRequest
    /\ dirResp = NoResponse
    /\ dirResult = Pending

CallFetchCities ==
    /\ dirPc = "idle"
    /\ \E page \in 1..MaxPage, limit \in 0..MaxLimit :
          /\ dirArgs' = [NoArgs EXCEPT !.fn = "fetchCities", !.page = page, !.limit = limit,
                                       !.sortField = DefaultParams.sortField,
                                       !.sortDirection = DefaultParams.sortDirection]
          /\ dirReq' = FetchCitiesRequest(dirArgs')
    /\ dirPc' = "fetchCities"
    /\ UNCHANGED <<dirResp, dirResult>>

SettleFetchCities ==
    /\ dirPc = "fetchCities"
    /\ \E resp \in FailedResponses \cup OkResponses :
          /\ dirResp' = resp
          /\ \E draws \in [1..dirArgs.limit -> CountryDraws] :
                dirResult' = fetchCities(dirArgs, resp, draws)
    /\ dirPc' = "done"
    /\ UNCHANGED <<dirArgs, dirReq>>

CallGetCityById ==
    /\ dirPc = "idle"
    /\ \E id \in LookupIds :
          /\ dirArgs' = [NoArgs EXCEPT !.fn = "getCityById", !.id = id]
          /\ dirReq' = [NoRequest EXCEPT !.q = <<<<"recordid:">> \o id>>]
    /\ dirPc' = "getCityById"
    /\ UNCHANGED <<dirResp, dirResult>>

SettleGetCityById ==
    /\ dirPc = "getCityById"
    /\ \E resp \in FailedResponses \cup OkResponses :
          /\ dirResp' = resp
          /\ \E draw \in CountryDraws :
                dirResult' = getCityById(dirArgs.id, resp, draw)
    /\ dirPc' = "done"
    /\ UNCHANGED <<dirArgs, dirReq>>

\* the caller takes the result; the client is ready for the next call
DirReturn ==
    /\ dirPc = "done"
    /\ dirPc' = "idle"
    /\ dirArgs' = NoArgs
    /\ dirReq' = NoRequest
    /\ dirResp' = NoResponse
    /\ dirResult' = Pending

(***************************************************************************)
(* Input sets and actions of the fetchWeather specification                *)
(***************************************************************************)
UnitsValues == {"metric", "imperial"}

\* current-weather responses: the failures, and bodies in either units
CurrentResponses ==
    { [kind |-> k, name |-> "", dt |-> 0,
       main |-> [temp |-> 0, feels_like |-> 0, temp_min |-> 0, temp_max |-> 0],
       wind |-> 0] : k \in {"network_error", "not_ok", "not_json"} }
    \cup
    { [kind |-> "ok", name |-> "Oslo", dt |-> 3600,
       main |-> [temp |-> t, feels_like |-> t - 1, temp_min |-> t - 2, temp_max |-> t + 2],
       wind |-> 3] : t \in {0, 31} }

\* forecast responses: the failures (bad_list: no list, or an entry without
\* dt or main), and lists of up to two samples
ForecastResponses ==
    { [kind |-> k, list |-> <<>>] : k \in {"network_error", "not_ok", "not_json", "bad_list"} }
    \cup
    UNION { [kind : {"ok"},
             list : [1..n -> [dt : {0 - 1, 0}, temp : {0, 3}, feels_like : {4},
                              pop : {Undefined}]]] : n \in 0..2 }

MockDraws == [1..MockForecastDays -> MockDayDraws]

NoneSeen == [current |-> "none", forecast |-> "none"]

WeatherIdle ==
    /\ apiKey = FALSE
    /\ fwCall = NoCall
    /\ fwSeen = NoneSeen

WeatherInit ==
    /\ apiKey \in BOOLEAN
    /\ fwCall = NoCall
    /\ fwSeen = NoneSeen

CallFetchWeather ==
    /\ fwCall.pc = "idle"
    /\ \E units \in UnitsValues, now \in NowValues, draws \in MockDraws :
          fwCall' = FetchWeatherStart(units, apiKey, now, draws)
    /\ UNCHANGED <<apiKey, fwSeen>>

CurrentResponse ==
    /\ fwCall.pc = "current"
    /\ \E resp \in CurrentResponses, now \in NowValues, draws \in MockDraws :
          /\ fwCall' = FetchWeatherOnCurrent(fwCall, resp, now, draws)
          /\ fwSeen' = [fwSeen EXCEPT !.current = resp.kind]
    /\ UNCHANGED apiKey

ForecastResponse ==
    /\ fwCall.pc = "forecast"
    /\ \E resp \in ForecastResponses, now \in NowValues, draws \in MockDraws :
          /\ fwCall' = FetchWeatherOnForecast(fwCall, resp, now, draws)
          /\ fwSeen' = [fwSeen EXCEPT !.forecast = resp.kind]
    /\ UNCHANGED apiKey

\* the caller takes the result
FetchWeatherReturn ==
    /\ fwCall.pc = "done"
    /\ fwCall' = NoCall
    /\ fwSeen' = NoneSeen
    /\ UNCHANGED apiKey

(***************************************************************************)
(* Bounds, input sets and actions of the fetchWeatherForCities             *)
(* specification                                                           *)
(***************************************************************************)
MaxBatch == 3

\* the cities a call may be given
BatchCities ==
    { MockCity(0, 0), MockCity(1, 4),
      CityOfRecord([recordid |-> RecId(0), name |-> <<"O", "s", "l", "o">>,
                    country |-> "Norway", coordinates |-> TRUE, population |-> <<1000>>]) }

\* the responses of the weather request of one city
CityWeatherResponses ==
    { [kind |-> k, main |-> [temp |-> 0, temp_max |-> 0, temp_min |-> 0],
       description |-> "", icon |-> ""] :
        k \in {"network_error", "not_ok", "not_json", "no_main"} }
    \cup
    { [kind |-> "ok", main |-> [temp |-> t, temp_max |-> t + 12, temp_min |-> t - 11],
       description |-> "clear sky", icon |-> "01d"] : t \in {0 - 25, 204} }

NoCityResponse ==
    [kind |-> "none", main |-> [temp |-> 0, temp_max |-> 0, temp_min |-> 0],
     description |-> "", icon |-> ""]

BatchIdle ==
    /\ wbBatch = NoBatch
    /\ wbResp = <<>>

CallFetchWeatherForCities ==
    /\ wbBatch.pc = "idle"
    /\ \E n \in 0..MaxBatch :
          \E cities \in [1..n -> BatchCities], draws \in [1..n -> PlaceholderWeatherDraws] :
              /\ wbBatch' = BatchStart(cities, apiKey, draws)
              /\ wbResp' = [i \in 1..n |-> NoCityResponse]
    /\ UNCHANGED <<apiKey, fwCall, fwSeen>>

CityWeatherResponse ==
    /\ wbBatch.pc = "pending"
    /\ \E i \in 1..Len(wbBatch.input), resp \in CityWeatherResponses :
          /\ wbBatch.slots[i].state = "pending"
          /\ wbBatch' = BatchOnResponse(wbBatch, i, resp)
          /\ wbResp' = [wbResp EXCEPT ![i] = resp]
    /\ UNCHANGED <<apiKey, fwCall, fwSeen>>

\* the caller takes the result
BatchReturn ==
    /\ wbBatch.pc = "done"
    /\ wbBatch' = NoBatch
    /\ wbResp' = <<>>
    /\ UNCHANGED <<apiKey, fwCall, fwSeen>>

(***************************************************************************)
(* Bounds, environment and actions of the CitiesTable specification        *)
(***************************************************************************)
MaxLoads == 2

\* the user events of a session
MaxEvents == 2

MaxSuggest == 1

MaxTablePage == 2

\* the longest list shown, in pages
MaxListPages == 3

\* the directory that upstream serves, in the order of the names
DirectoryByName ==
    << [recordid |-> RecId(0), name |-> <<"O", "s", "a", "k", "a">>, country |-> "Japan",
        coordinates |-> TRUE, population |-> <<2000>>],
       [recordid |-> RecId(1), name |-> <<"O", "s", "l", "o">>, country |-> "Norway",
        coordinates |-> TRUE, population |-> <<1000>>],
       [recordid |-> RecId(2), name |-> <<"R", "o", "m", "e">>, country |-> "Italy",
        coordinates |-> TRUE, population |-> <<3000>>] >>

Reverse(seq) == [i \in 1..Len(seq) |-> seq[Len(seq) + 1 - i]]

DirectoryBy(field) ==
    IF field = "population"
    THEN <<DirectoryByName[2], DirectoryByName[1], DirectoryByName[3]>>
    ELSE DirectoryByName

\* upstream answers a search request: the records that match q and every
\* refine parameter, sorted, from start on and at most rows of them
Upstream(req) ==
    LET desc     == Head(req.sort) = "-"
        field    == req.sort[Len(req.sort)]
        ordered  == IF desc THEN Reverse(DirectoryBy(field)) ELSE DirectoryBy(field)
        matching == SelectSeq(ordered, LAMBDA rec :
                        /\ req.q = <<>> \/ StartsWith(rec.name, req.q[1])
                        /\ \A f \in DOMAIN req.refine : f = "country" /\ rec.country = req.refine[f])
        start    == ParseInt(req.start)[1]
        rows     == ParseInt(req.rows)[1]
    IN  [ kind    |-> "ok",
          records |-> SubSeq(matching, start + 1, MinOf(start + rows, Len(matching))),
          nhits   |-> Len(matching) ]

\* what upstream may answer to the call with the params p: the page, or a
\* failure
Answers(p) ==
    { Upstream(FetchCitiesRequest(p)),
      [kind |-> "network_error", records |-> <<>>, nhits |-> 0] }

\* the search terms a user types
TypedTerms == {<<>>, <<"O", "s">>}

TableSortFields == {"name", "population"}

\* the weather responses of one city
TableWeatherResponses ==
    {r \in CityWeatherResponses : r.kind = "not_ok" \/ (r.kind = "ok" /\ r.main.temp = 204)}

\* the draw of every placeholder city of the table
TableDraw == 0

Ids(cities) == [i \in 1..Len(cities) |-> cities[i].id]

\* the cities of the result of the call with the params p answered by resp
LoadedCities(p, resp) ==
    fetchCities(p, resp, SameDraws(p.limit, TableDraw)).value.cities

TableInit ==
    /\ ts = MountState
    /\ tSuggest = <<>>
    /\ tBatches = <<>>
    /\ tEvents = 0
    /\ \E resp \in Answers(LoadParams(MountState)) :
          /\ tLoads = <<[params |-> LoadParams(MountState), resp |-> resp]>>
          /\ tInOrder = Ids(LoadedCities(LoadParams(MountState), resp))

TableIdle ==
    /\ ts = MountState
    /\ tLoads = <<>>
    /\ tSuggest = <<>>
    /\ tBatches = <<>>
    /\ tEvents = 0
    /\ tInOrder = <<>>

MaxOf(a, b) == IF a > b THEN a ELSE b

Appending == {i \in 1..Len(tLoads) : tLoads[i].params.page # 1}

RoomToAppend ==
    MaxOf(Len(ts.cities), PageLimit) + PageLimit * (1 + Cardinality(Appending))
        <= PageLimit * MaxListPages

\* an event takes the component from ts to the state new, with the calls of
\* loadCities in loads still unanswered: the effects run, and upstream
\* answers the call of loadCities that they make, if any.  A call that
\* appends is made only while the list stays within MaxListPages pages
Render(new, filtersSet, citiesSet, loads, batches, draw) ==
    LET r == RunEffects(ts, new, filtersSet, citiesSet, <<>>, tSuggest, batches, apiKey, draw)
    IN  /\ ts' = r.state
        /\ tSuggest' = r.suggest
        /\ Len(tSuggest') <= MaxSuggest
        /\ tBatches' = r.batches
        /\ IF r.loads = <<>>
           THEN /\ tLoads' = loads
                /\ UNCHANGED tInOrder
           ELSE /\ Len(loads) < MaxLoads
                /\ r.loads[1].page = 1 \/ RoomToAppend
                /\ \E resp \in Answers(r.loads[1]) :
                      /\ tLoads' = Append(loads, [params |-> r.loads[1], resp |-> resp])
                      /\ tInOrder' = IF r.loads[1].page = 1
                                      THEN Ids(LoadedCities(r.loads[1], resp))
                                      ELSE tInOrder \o Ids(LoadedCities(r.loads[1], resp))

OthersUnchanged == UNCHANGED <<fcVars, dirVars, fwVars, wbVars, wd>>

UserEvent ==
    /\ tEvents < MaxEvents
    /\ tEvents' = tEvents + 1

\* the last row scrolls into view
ScrollToEnd ==
    /\ ObserverWatches(ts)
    /\ ts.page < MaxTablePage
    /\ Render(Intersect(ts), FALSE, FALSE, tLoads, tBatches, TableDraw)
    /\ UserEvent
    /\ OthersUnchanged

ClickSort ==
    /\ \E field \in TableSortFields :
          Render(handleSort(ts, field), FALSE, FALSE, tLoads, tBatches, TableDraw)
    /\ UserEvent
    /\ OthersUnchanged

\* the country menu offers the countries of the cities shown
CountryPicked ==
    \E i \in 1..Len(ts.cities) :
        Render(handleFilter(ts, "country", ts.cities[i].country), TRUE, FALSE,
               tLoads, tBatches, TableDraw)

PickCountry ==
    /\ CountryPicked
    /\ UserEvent
    /\ OthersUnchanged

\* the letters of the name menu that a user picks
TableLetters == {"O"}

\* an entry of the name menu, "Starts with <letter>", is picked
LetterPicked ==
    \E letter \in TableLetters :
        Render(handleFilter(ts, "name", letter), TRUE, FALSE, tLoads, tBatches, TableDraw)

\* a filter badge is clicked
FilterCleared ==
    \E field \in DOMAIN ts.filters :
        Render(clearFilter(ts, field), TRUE, FALSE, tLoads, tBatches, TableDraw)

ClickClearFilter ==
    /\ FilterCleared
    /\ UserEvent
    /\ OthersUnchanged

\* the same events of a user who does nothing but filter, as many as they like
FilterByCountry == CountryPicked /\ UNCHANGED tEvents /\ OthersUnchanged

FilterByLetter == LetterPicked /\ UNCHANGED tEvents /\ OthersUnchanged

RemoveFilter == FilterCleared /\ UNCHANGED tEvents /\ OthersUnchanged

TypeSearch ==
    /\ \E value \in TypedTerms :
          /\ value # ts.searchTerm
          /\ Render(handleSearchChange(ts, value), FALSE, FALSE, tLoads, tBatches, TableDraw)
    /\ UserEvent
    /\ OthersUnchanged

ClickSuggestion ==
    /\ ts.showSuggestions
    /\ \E i \in 1..Len(ts.suggestions) :
          Render(selectSuggestion(ts, ts.suggestions[i]), FALSE, FALSE, tLoads, tBatches, TableDraw)
    /\ UserEvent
    /\ OthersUnchanged

ClickClearSearch ==
    /\ ts.searchTerm # <<>>
    /\ Render(clearSearch(ts), FALSE, FALSE, tLoads, tBatches, TableDraw)
    /\ UserEvent
    /\ OthersUnchanged

DebounceTimer ==
    /\ ts.debounced # ts.searchTerm
    /\ Render(DebounceElapsed(ts), FALSE, FALSE, tLoads, tBatches, TableDraw)
    /\ UNCHANGED tEvents
    /\ OthersUnchanged

RemoveAt(seq, i) == SubSeq(seq, 1, i - 1) \o SubSeq(seq, i + 1, Len(seq))

\* the response to a call of loadCities arrives, in any order
LoadResponse ==
    /\ \E i \in 1..Len(tLoads) :
          LET load   == tLoads[i]
              result == fetchCities(load.params, load.resp,
                                    SameDraws(load.params.limit, TableDraw))
          IN  \E draw \in PlaceholderWeatherDraws :
                Render(LoadSettled(ts, load.params, result), FALSE,
                       result.state = "resolved", RemoveAt(tLoads, i), tBatches, draw)
    /\ UNCHANGED tEvents
    /\ OthersUnchanged

\* the response to a suggestion request arrives
SuggestResponse ==
    /\ \E i \in 1..Len(tSuggest) :
          \E resp \in Answers(tSuggest[i]) :
              LET result == fetchCities(tSuggest[i], resp, SameDraws(SuggestLimit, TableDraw))
              IN  /\ ts' = SuggestSettled(ts, result)
                  /\ tSuggest' = RemoveAt(tSuggest, i)
    /\ UNCHANGED <<tLoads, tBatches, tEvents, tInOrder>>
    /\ OthersUnchanged

\* a batch once the requests from the i-th on got the responses resps
RECURSIVE BatchAnswered(_, _, _)
BatchAnswered(batch, resps, i) ==
    IF i > Len(resps) THEN batch
    ELSE BatchAnswered(BatchOnResponse(batch, i, resps[i]), resps, i + 1)

\* the weather requests of a call of loadWeatherData are answered, each in
\* its own way: fetchWeatherForCities returns and loadWeatherData goes on.
\* Nothing of the table sees a batch between two of its responses
WeatherAnswered(responses) ==
    \E b \in 1..Len(tBatches) :
        \E resps \in [1..Len(tBatches[b].input) -> responses] :
            LET batch == BatchAnswered(tBatches[b], resps, 1)
            IN  Render(WeatherSettled(ts, batch.result), FALSE, TRUE,
                       tLoads, RemoveAt(tBatches, b), TableDraw)

WeatherResponse ==
    /\ WeatherAnswered(TableWeatherResponses)
    /\ UNCHANGED tEvents
    /\ OthersUnchanged

\* the same with a weather service that answers every request
WeatherSuccess ==
    /\ WeatherAnswered({r \in TableWeatherResponses : r.kind = "ok"})
    /\ UNCHANGED tEvents
    /\ OthersUnchanged

(***************************************************************************)
(* WeatherDisplay (src/components/cities-table.tsx)                        *)
(***************************************************************************)
\* the useState values of a WeatherDisplay that has just been created
WeatherDisplayMount ==
    [currentWeather |-> Null, forecast |-> Null, loading |-> TRUE,
     error |-> "null", units |-> "metric"]

\* an effect that leaves out setLoading(true)
LoadWeatherStartKeepsView(s) == [s EXCEPT !.error = "null"]

\* loadWeatherData of WeatherDisplay up to its await
LoadWeatherStart(s) == [s EXCEPT !.loading = TRUE, !.error = "null"]

\* a continuation that leaves out setForecast
LoadWeatherSettledCurrentOnly(s, result) ==
    IF result.state = "rejected"
    THEN [s EXCEPT !.error = "Failed to load weather data. Please try again.",
                   !.loading = FALSE]
    ELSE [s EXCEPT !.currentWeather = <<result.value.current>>,
                   !.loading = FALSE]

\* loadWeatherData of WeatherDisplay after its await: the promise of
\* fetchWeather has settled
LoadWeatherSettled(s, result) ==
    IF result.state = "rejected"
    THEN [s EXCEPT !.error = "Failed to load weather data. Please try again.",
                   !.loading = FALSE]
    ELSE [s EXCEPT !.currentWeather = <<result.value.current>>,
                   !.forecast = <<result.value.forecast>>,
                   !.loading = FALSE]

\* toggleUnits
toggleUnits(s) ==
    [s EXCEPT !.units = IF @ = "metric" THEN "imperial" ELSE "metric"]

\* which of its four views WeatherDisplay renders
DisplayView(s) ==
    IF s.loading THEN "loading"
    ELSE IF s.error # "null" THEN "error"
    ELSE IF s.currentWeather = Null \/ s.forecast = Null THEN "no_data"
    ELSE "data"

DisplayIdle == wd = WeatherDisplayMount

\* the draws of getMockWeatherData that the display is run with: the seven
\* days draw alike
DisplayDraws == {[i \in 1..MockForecastDays |-> d] : d \in MockDayDraws}

\* the component is created and its effect runs for the first time
DisplayInit ==
    /\ apiKey \in BOOLEAN
    /\ wd = LoadWeatherStart(WeatherDisplayMount)
    /\ fwCall \in {FetchWeatherStart(wd.units, apiKey, now, draws) :
                      now \in NowValues, draws \in DisplayDraws}
    /\ fwSeen = NoneSeen

\* the response of the display's current-weather request arrives
DisplayCurrentResponse ==
    /\ fwCall.pc = "current"
    /\ \E resp \in CurrentResponses, now \in NowValues, draws \in DisplayDraws :
          /\ fwCall' = FetchWeatherOnCurrent(fwCall, resp, now, draws)
          /\ fwSeen' = [fwSeen EXCEPT !.current = resp.kind]
    /\ UNCHANGED <<apiKey, wd>>

\* the response of the display's forecast request arrives
DisplayForecastResponse ==
    /\ fwCall.pc = "forecast"
    /\ \E resp \in ForecastResponses, now \in NowValues, draws \in DisplayDraws :
          /\ fwCall' = FetchWeatherOnForecast(fwCall, resp, now, draws)
          /\ fwSeen' = [fwSeen EXCEPT !.forecast = resp.kind]
    /\ UNCHANGED <<apiKey, wd>>

\* the await of loadWeatherData ends; the call stays on record, at rest,
\* with the units it was made for and the promise it settled
WeatherLoaded ==
    /\ fwCall.pc = "done"
    /\ wd' = LoadWeatherSettled(wd, fwCall.result)
    /\ fwCall' = [fwCall EXCEPT !.pc = "idle"]
    /\ UNCHANGED <<apiKey, fwSeen>>

\* the user flips the units switch, which only the data view offers; the
\* effect runs again because units changed
ToggleUnits ==
    /\ DisplayView(wd) = "data"
    /\ wd' = LoadWeatherStart(toggleUnits(wd))
    /\ \E now \in NowValues, draws \in DisplayDraws :
          fwCall' = FetchWeatherStart(wd'.units, apiKey, now, draws)
    /\ fwSeen' = NoneSeen
    /\ UNCHANGED apiKey

(***************************************************************************)
(* The specifications                                                      *)
(***************************************************************************)
InitForecast == ForecastInit /\ DirIdle /\ WeatherIdle /\ BatchIdle /\ TableIdle /\ DisplayIdle

NextForecast == ProcessForecast /\ UNCHANGED <<dirVars, fwVars, wbVars, tVars, wd>>

SpecForecast == InitForecast /\ [][NextForecast]_vars

InitForecastPop == ForecastPopInit /\ DirIdle /\ WeatherIdle /\ BatchIdle /\ TableIdle /\ DisplayIdle

SpecForecastPop == InitForecastPop /\ [][NextForecast]_vars

InitDirectory == DirIdle /\ ForecastIdle /\ WeatherIdle /\ BatchIdle /\ TableIdle /\ DisplayIdle

NextDirectory ==
    \/ CallFetchCities /\ UNCHANGED <<fcVars, fwVars, wbVars, tVars, wd>>
    \/ SettleFetchCities /\ UNCHANGED <<fcVars, fwVars, wbVars, tVars, wd>>
    \/ CallGetCityById /\ UNCHANGED <<fcVars, fwVars, wbVars, tVars, wd>>
    \/ SettleGetCityById /\ UNCHANGED <<fcVars, fwVars, wbVars, tVars, wd>>
    \/ DirReturn /\ UNCHANGED <<fcVars, fwVars, wbVars, tVars, wd>>

SpecDirectory == InitDirectory /\ [][NextDirectory]_vars

InitWeather == WeatherInit /\ DirIdle /\ ForecastIdle /\ BatchIdle /\ TableIdle /\ DisplayIdle

NextWeather ==
    \/ CallFetchWeather /\ UNCHANGED <<fcVars, dirVars, wbVars, tVars, wd>>
    \/ CurrentResponse /\ UNCHANGED <<fcVars, dirVars, wbVars, tVars, wd>>
    \/ ForecastResponse /\ UNCHANGED <<fcVars, dirVars, wbVars, tVars, wd>>
    \/ FetchWeatherReturn /\ UNCHANGED <<fcVars, dirVars, wbVars, tVars, wd>>

SpecWeather == InitWeather /\ [][NextWeather]_vars

InitBatch ==
    /\ apiKey \in BOOLEAN
    /\ fwCall = NoCall
    /\ fwSeen = NoneSeen
    /\ BatchIdle
    /\ DirIdle
    /\ ForecastIdle
    /\ TableIdle
    /\ DisplayIdle

NextBatch ==
    \/ CallFetchWeatherForCities /\ UNCHANGED <<fcVars, dirVars, tVars, wd>>
    \/ CityWeatherResponse /\ UNCHANGED <<fcVars, dirVars, tVars, wd>>
    \/ BatchReturn /\ UNCHANGED <<fcVars, dirVars, tVars, wd>>

SpecBatch == InitBatch /\ [][NextBatch]_vars

Init ==
    /\ apiKey \in BOOLEAN
    /\ fwCall = NoCall
    /\ fwSeen = NoneSeen
    /\ TableInit
    /\ BatchIdle
    /\ DirIdle
    /\ ForecastIdle
    /\ DisplayIdle

Next ==
    \/ ScrollToEnd
    \/ ClickSort
    \/ PickCountry
    \/ ClickClearFilter
    \/ TypeSearch
    \/ ClickSuggestion
    \/ ClickClearSearch
    \/ DebounceTimer
    \/ LoadResponse
    \/ SuggestResponse
    \/ WeatherResponse

Spec == Init /\ [][Next]_vars

\* the table of a user who does nothing but scroll: the pages of one query
\* are loaded one after the other
NextScroll ==
    \/ ScrollToEnd
    \/ LoadResponse
    \/ WeatherResponse

SpecScroll == Init /\ [][NextScroll]_vars

\* the table with a weather service that answers every request and a user
\* who stops after MaxEvents events: every request made is answered
NextQuiet ==
    \/ ScrollToEnd
    \/ ClickSort
    \/ PickCountry
    \/ ClickClearFilter
    \/ TypeSearch
    \/ ClickSuggestion
    \/ ClickClearSearch
    \/ DebounceTimer
    \/ LoadResponse
    \/ SuggestResponse
    \/ WeatherSuccess

\* a step that answers a call of loadCities; one is possible exactly when a
\* call is in flight
LoadAnswered == Len(tLoads') < Len(tLoads)

\* a step that answers the requests of a call of loadWeatherData; one is
\* possible exactly when a call is in flight, and only such a step changes
\* the calls in flight then
WeatherAnsweredStep == tBatches # <<>> /\ tBatches' # tBatches

\* weak fairness of the two kinds of response, WF_vars(LoadResponse) and
\* WF_vars(WeatherSuccess), with the enabling conditions written out
SpecQuiet ==
    /\ Init
    /\ [][NextQuiet]_vars
    /\ ([]<>(tLoads = <<>>) \/ []<><<LoadAnswered>>_vars)
    /\ ([]<>(tBatches = <<>>) \/ []<><<WeatherAnsweredStep>>_vars)

\* the table of a user who does nothing but set and clear filters
NextFilter ==
    \/ FilterByCountry
    \/ FilterByLetter
    \/ RemoveFilter
    \/ LoadResponse
    \/ WeatherResponse

SpecFilter == Init /\ [][NextFilter]_vars

InitDisplay == DisplayInit /\ DirIdle /\ ForecastIdle /\ BatchIdle /\ TableIdle

NextDisplay ==
    \/ DisplayCurrentResponse /\ UNCHANGED <<fcVars, dirVars, wbVars, tVars>>
    \/ DisplayForecastResponse /\ UNCHANGED <<fcVars, dirVars, wbVars, tVars>>
    \/ WeatherLoaded /\ UNCHANGED <<fcVars, dirVars, wbVars, tVars>>
    \/ ToggleUnits /\ UNCHANGED <<fcVars, dirVars, wbVars, tVars>>

\* a step of the load in progress
LoadAdvanced == fwCall.pc # "idle" /\ fwCall' # fwCall

\* the responses arrive and the continuation runs: a load in progress does
\* not wait forever
SpecDisplay ==
    /\ InitDisplay
    /\ [][NextDisplay]_vars
    /\ ([]<>(fwCall.pc = "idle") \/ []<><<LoadAdvanced>>_vars)

\* the home page is shown: no WeatherDisplay has been created
TableShown == wd = WeatherDisplayMount /\ fwCall = NoCall

\* the user follows the link of a row to the city's page: CitiesTable is
\* discarded with its state, and WeatherDisplay is created and its effect
\* runs
OpenCity ==
    /\ TableShown
    /\ ts.cities # <<>>
    /\ ts' = MountState
    /\ tLoads' = <<>>
    /\ tSuggest' = <<>>
    /\ tBatches' = <<>>
    /\ tEvents' = 0
    /\ tInOrder' = <<>>
    /\ wd' = LoadWeatherStart(WeatherDisplayMount)
    /\ \E now \in NowValues, draws \in DisplayDraws :
          fwCall' = FetchWeatherStart(wd'.units, apiKey, now, draws)
    /\ fwSeen' = NoneSeen
    /\ UNCHANGED <<apiKey, fcVars, dirVars, wbVars>>

\* the two pages: the table, and the display of a city opened from it
NextPages ==
    \/ TableShown /\ Next
    \/ OpenCity
    \/ NextDisplay

SpecPages == Init /\ [][NextPages]_vars

(***************************************************************************)
(* Claims about the directory client                                       *)
(***************************************************************************)
\* the request failed: no response, a status that is not OK, or a body
\* that cannot be reshaped
FetchCitiesFailed ==
    \/ dirResp.kind \in {"network_error", "not_ok", "not_json", "no_records"}
    \/ \E i \in DOMAIN dirResp.records : ~dirResp.records[i].coordinates

\* the number k of an id mock-k, NaN for any other id
MockNumber(id) ==
    IF StartsWith(id, MockPrefix) THEN ParseInt(SubSeq(id, Len(MockPrefix) + 1, Len(id)))
    ELSE NaN

\* C1: fetchCities never rejects, and when the request fails it resolves
\* with exactly limit placeholder cities with the ids mock-(offset+i),
\* i in 0..limit-1, offset = (page-1)*limit, total = 100 and
\* hasMore = (page < 5)
C1_FetchCitiesFallback ==
    (dirPc = "done" /\ dirArgs.fn = "fetchCities") =>
        /\ dirResult.state = "resolved"
        /\ FetchCitiesFailed =>
              LET r      == dirResult.value
                  offset == (dirArgs.page - 1) * dirArgs.limit
              IN  /\ Len(r.cities) = dirArgs.limit
                  /\ \A i \in 0..(dirArgs.limit - 1) :
                        MockNumber(r.cities[i + 1].id) = <<offset + i>>
                  /\ r.total = 100
                  /\ r.hasMore = (dirArgs.page < 5)

\* page 6 of limit 2 fails: the placeholders mock-10 and mock-11, no more pages
C1_Witness ==
    /\ dirPc = "done"
    /\ dirArgs.fn = "fetchCities"
    /\ dirArgs.page = 6
    /\ dirArgs.limit = 2
    /\ dirResp.kind = "not_ok"
    /\ dirResult.state = "resolved"
    /\ Len(dirResult.value.cities) = 2
    /\ dirResult.value.cities[2].id = <<"m", "o", "c", "k", "-", "1", "1">>
    /\ ~dirResult.value.hasMore

GetCityFailed ==
    \/ dirResp.kind \in {"network_error", "not_ok", "not_json", "no_records"}
    \/ dirResp.records # <<>> /\ ~dirResp.records[1].coordinates

\* C3 as claimed: for every id, a failed lookup yields a city record, and
\* the detail page shows a city
C3_FailedLookupYieldsCity ==
    (dirPc = "done" /\ dirArgs.fn = "getCityById" /\ GetCityFailed) =>
        /\ dirResult.state = "resolved"
        /\ dirResult.value # Null
        /\ CityPage(dirResult.value) = "city"

\* C3 as amended: a failed lookup yields a placeholder city with the
\* requested id exactly when the id starts with mock-; for any other id it
\* yields no city and the detail page shows 'City not found'
C3_FailedLookupMockOnly ==
    (dirPc = "done" /\ dirArgs.fn = "getCityById" /\ GetCityFailed) =>
        /\ dirResult.state = "resolved"
        /\ IF StartsWith(dirArgs.id, MockPrefix)
           THEN /\ dirResult.value # Null
                /\ dirResult.value[1].id = dirArgs.id
                /\ CityPage(dirResult.value) = "city"
           ELSE /\ dirResult.value = Null
                /\ CityPage(dirResult.value) = "City not found"

\* the lookup of a record id fails and nothing is substituted
C3_Witness ==
    /\ dirPc = "done"
    /\ dirArgs.fn = "getCityById"
    /\ dirArgs.id = <<"r", "e", "c", "0">>
    /\ dirResp.kind = "network_error"
    /\ dirResult.state = "resolved"
    /\ dirResult.value = Null

\* the record range [from, to) that a request asks for
RangeOf(req) ==
    [from |-> ParseInt(req.start)[1], to |-> ParseInt(req.start)[1] + ParseInt(req.rows)[1]]

\* C12: for page >= 1 and limit > 0 fetchCities requests rows = limit and
\* start = (page - 1) * limit: page 1 asks for the range from 0 on, and the
\* range of the next page of the same query begins where this one ends
C12_PaginationParameters ==
    (dirArgs.fn = "fetchCities" /\ dirArgs.page >= 1 /\ dirArgs.limit > 0) =>
        /\ dirReq.rows = NatToString(dirArgs.limit)
        /\ ParseInt(dirReq.rows) = <<dirArgs.limit>>
        /\ ParseInt(dirReq.start) = <<(dirArgs.page - 1) * dirArgs.limit>>
        /\ RangeOf(dirReq).to - RangeOf(dirReq).from = dirArgs.limit
        /\ (dirArgs.page = 1 => RangeOf(dirReq).from = 0)
        /\ RangeOf(FetchCitiesRequest([dirArgs EXCEPT !.page = @ + 1])).from
              = RangeOf(dirReq).to

\* page 3 with limit 2 asks for 2 rows from record 4 on
C12_Witness ==
    /\ dirPc = "fetchCities"
    /\ dirArgs.page = 3
    /\ dirArgs.limit = 2
    /\ dirReq.rows = <<"2">>
    /\ dirReq.start = <<"4">>

\* what C13 says of one call, for whatever upstream answers: holds in every
\* state of SpecDirectory
FetchCitiesReportsHits ==
    (dirPc = "done" /\ dirArgs.fn = "fetchCities" /\ ~FetchCitiesThrows(dirResp)) =>
        /\ dirResult.state = "resolved"
        /\ dirResult.value.total = dirResp.nhits
        /\ dirResult.value.hasMore
              <=> ((dirArgs.page - 1) * dirArgs.limit + Len(dirResult.value.cities)
                     < dirResp.nhits)

\* the number of records that upstream holds for the query of the table
HitsOfQuery == Upstream(FetchCitiesRequest(LoadParams(ts))).nhits

\* every city shown comes from a response of upstream
AllFromUpstream == \A i \in DOMAIN ts.cities : StartsWith(ts.cities[i].id, RecPrefix)

\* C13: on a successful response fetchCities reports total = nhits and
\* hasMore = TRUE exactly when (page - 1) * limit plus the number of cities
\* returned is less than nhits; once the pages loaded in sequence have all
\* been appended, hasMore is FALSE exactly when the list holds all nhits
\* records
C13_HasMoreAndTotal ==
    /\ \A i \in DOMAIN tLoads :
          LET load   == tLoads[i]
              result == fetchCities(load.params, load.resp,
                                    SameDraws(load.params.limit, TableDraw))
          IN  ~FetchCitiesThrows(load.resp) =>
                /\ result.state = "resolved"
                /\ result.value.total = load.resp.nhits
                /\ result.value.hasMore
                      <=> ((load.params.page - 1) * load.params.limit
                             + Len(result.value.cities) < load.resp.nhits)
    /\ (tLoads = <<>> /\ AllFromUpstream) =>
          /\ Len(ts.cities) <= HitsOfQuery
          /\ ~ts.hasMore <=> Len(ts.cities) = HitsOfQuery

\* the second page has come and completes the list of the three records
C13_Witness ==
    /\ tLoads = <<>>
    /\ AllFromUpstream
    /\ ts.page = 2
    /\ Len(ts.cities) = 3
    /\ HitsOfQuery = 3
    /\ ~ts.hasMore

\* the responses with which the request of getCityById fails: the failures,
\* and a body whose first record cannot be reshaped
FailedLookups ==
    FailedResponses \cup
    {resp \in [kind : {"ok"}, records : [1..1 -> UpstreamRecords], nhits : {1}] :
        GetCityThrows(resp)}

\* the numbers k for which the city has the id mock-k and the name City k+1
PlaceholderNumbers(city) ==
    {k \in 0..(MaxPage * MaxLimit) :
        city.id = MockId(k) /\ city.name = CityName(<<k + 1>>)}

\* C28: every placeholder city that fetchCities returns has the id mock-k
\* and the name City k+1 for one k >= 0, and getCityById of that id, when
\* its request fails, returns a city with the same id and the same name
C28_PlaceholderRoundTrip ==
    (dirPc = "done" /\ dirArgs.fn = "fetchCities" /\ FetchCitiesFailed) =>
        \A i \in DOMAIN dirResult.value.cities :
            LET city == dirResult.value.cities[i]
            IN  /\ Cardinality(PlaceholderNumbers(city)) = 1
                /\ \A resp \in FailedLookups, draw \in CountryDraws :
                      LET found == getCityById(city.id, resp, draw)
                      IN  /\ found.state = "resolved"
                          /\ found.value # Null
                          /\ found.value[1].id = city.id
                          /\ found.value[1].name = city.name

\* page 5 of limit 2 fails: the placeholders mock-8, City 9, and mock-9,
\* City 10, whose name has a digit more than its id
C28_Witness ==
    /\ dirPc = "done"
    /\ dirArgs.fn = "fetchCities"
    /\ dirArgs.page = 5
    /\ dirArgs.limit = 2
    /\ dirResp.kind = "network_error"
    /\ dirResult.value.cities[1].id = <<"m", "o", "c", "k", "-", "8">>
    /\ dirResult.value.cities[2].id = <<"m", "o", "c", "k", "-", "9">>
    /\ dirResult.value.cities[2].name = <<"C", "i", "t", "y", " ", "1", "0">>

(***************************************************************************)
(* Claims about fetchWeather                                               *)
(***************************************************************************)
BothRequestsSucceeded ==
    apiKey /\ fwSeen.current = "ok" /\ fwSeen.forecast = "ok"

\* C2: fetchWeather never rejects, and its result is all or nothing: when
\* the API key is configured and both requests succeeded, the current
\* weather and the forecast both come from upstream; in every other case
\* both are placeholder data, with exactly 7 forecast records
C2_FetchWeatherAllOrNothing ==
    fwCall.pc = "done" =>
        /\ fwCall.result.state = "resolved"
        /\ LET r == fwCall.result.value
           IN  IF BothRequestsSucceeded
               THEN /\ r.current.source = "upstream"
                    /\ r.forecastSource = "upstream"
               ELSE /\ r.current.source = "mock"
                    /\ r.forecastSource = "mock"
                    /\ Len(r.forecast) = 7

\* the current-weather request succeeded and the forecast request failed:
\* upstream current weather was held and the result has none of it
C2_Witness ==
    /\ fwCall.pc = "done"
    /\ apiKey
    /\ fwSeen.current = "ok"
    /\ fwSeen.forecast = "not_ok"
    /\ fwCall.current.source = "upstream"
    /\ fwCall.result.value.current.source = "mock"
    /\ Len(fwCall.result.value.forecast) = 7

(***************************************************************************)
(* Claims about fetchWeatherForCities                                      *)
(***************************************************************************)
\* n is the integer nearest to tenths / 10, the upper one of two
RoundsTo(tenths, n) == 10 * n - 5 <= tenths /\ tenths < 10 * n + 5

\* the weather w is the one of the response resp, rounded
WeatherFrom(w, resp) ==
    /\ Len(w) = 1
    /\ RoundsTo(resp.main.temp, w[1].temp)
    /\ RoundsTo(resp.main.temp_max, w[1].high)
    /\ RoundsTo(resp.main.temp_min, w[1].low)
    /\ w[1].description = resp.description
    /\ w[1].icon = resp.icon

\* C4: with an API key, for every input, every set of failing requests and
\* every arrival order, fetchWeatherForCities resolves with a list as long
\* as its input whose position i holds the city with the id of input
\* position i, and the weather of a city whose request succeeded is the one
\* of that city's own response
C4_PerCityIndependent ==
    (wbBatch.pc = "done" /\ apiKey) =>
        /\ wbBatch.result.state = "resolved"
        /\ LET out == wbBatch.result.value
           IN  /\ Len(out) = Len(wbBatch.input)
               /\ \A i \in 1..Len(wbBatch.input) :
                     /\ out[i].id = wbBatch.input[i].id
                     /\ wbResp[i].kind = "ok" => WeatherFrom(out[i].weather, wbResp[i])

\* three cities; the responses arrive last city first, the one in the
\* middle fails and the other two get different weather
C4_Witness ==
    /\ wbBatch.pc = "done"
    /\ apiKey
    /\ Len(wbBatch.input) = 3
    /\ wbBatch.order = <<3, 2, 1>>
    /\ wbBatch.input[1].id # wbBatch.input[3].id
    /\ wbResp[1].kind = "ok"
    /\ wbResp[2].kind = "not_ok"
    /\ wbResp[3].kind = "ok"
    /\ wbResp[1].main.temp # wbResp[3].main.temp
    /\ wbBatch.result.value[1].weather[1].temp = 20
    /\ wbBatch.result.value[3].weather[1].temp = 0 - 2

CityRequestFailed(i) ==
    wbResp[i].kind \in {"network_error", "not_ok", "not_json", "no_main"}

\* C5 as claimed: with an API key, a city whose weather request failed is
\* returned with its weather field set
C5_FailedCityGetsPlaceholder ==
    (wbBatch.pc = "done" /\ apiKey) =>
        \A i \in 1..Len(wbBatch.input) :
            CityRequestFailed(i) => wbBatch.result.value[i].weather # NoWeather

\* C5 as amended: with an API key, a city whose weather request failed is
\* returned as it was passed in, so without weather data when it had none
C5_FailedCityUnchanged ==
    (wbBatch.pc = "done" /\ apiKey) =>
        \A i \in 1..Len(wbBatch.input) :
            CityRequestFailed(i) =>
                /\ wbBatch.result.value[i] = wbBatch.input[i]
                /\ wbBatch.input[i].weather = NoWeather
                     => wbBatch.result.value[i].weather = NoWeather

\* of two cities the first one's request fails: it has no weather in the
\* result, the second one has
C5_Witness ==
    /\ wbBatch.pc = "done"
    /\ apiKey
    /\ Len(wbBatch.input) = 2
    /\ wbResp[1].kind = "network_error"
    /\ wbResp[2].kind = "ok"
    /\ wbBatch.result.value[1].weather = NoWeather
    /\ wbBatch.result.value[2].weather # NoWeather

(***************************************************************************)
(* Claims about processForecastData                                        *)
(***************************************************************************)
\* the UTC calendar day of a timestamp in seconds, as a day number
UtcDay(dt) == dt \div SecPerDay

InputDays == {UtcDay(fcList[i].dt) : i \in DOMAIN fcList}

SamplesOfDay(day) == SelectSeq(fcList, LAMBDA s : UtcDay(s.dt) = day)

RECURSIVE SumLen(_)
SumLen(daily) ==
    IF daily = <<>> THEN 0 ELSE Len(Head(daily).items) + SumLen(Tail(daily))

\* C8: processForecastData partitions its input by UTC calendar day: each
\* group holds exactly the samples of one UTC day, in input order, no two
\* groups are of the same day, there is one output record per distinct day,
\* the group sizes sum to the input length, and an empty input yields an
\* empty forecast
C8_PartitionByUtcDay ==
    fcPc = "done" =>
        /\ Len(fcOut) = Cardinality(InputDays)
        /\ Len(fcDaily) = Len(fcOut)
        /\ \A g \in DOMAIN fcDaily :
              /\ fcDaily[g].items # <<>>
              /\ fcDaily[g].items = SamplesOfDay(UtcDay(fcDaily[g].items[1].dt))
        /\ \A g, h \in DOMAIN fcDaily :
              g # h => UtcDay(fcDaily[g].items[1].dt) # UtcDay(fcDaily[h].items[1].dt)
        /\ SumLen(fcDaily) = Len(fcList)
        /\ (fcList = <<>> => fcOut = <<>>)

\* two days, the samples of the first one not adjacent in the input and at
\* different times of the day
C8_Witness ==
    /\ fcPc = "done"
    /\ Len(fcList) = 3
    /\ Len(fcOut) = 2
    /\ fcList[1].dt = 0
    /\ fcList[2].dt = 0 - 1
    /\ fcList[3].dt = 86399
    /\ Len(fcDaily[1].items) = 2

GroupTemps(g) == {fcDaily[g].items[i].temp : i \in DOMAIN fcDaily[g].items}

\* C9: in every day record temp.min is the minimum and temp.max the maximum
\* of the temperatures of the day's samples, and morn, day, eve and night
\* lie between them
C9_MinMaxBracket ==
    fcPc = "done" =>
        \A g \in DOMAIN fcOut :
            LET t == fcOut[g].temp IN
            /\ t.min \in GroupTemps(g)
            /\ \A x \in GroupTemps(g) : t.min <= x
            /\ t.max \in GroupTemps(g)
            /\ \A x \in GroupTemps(g) : x <= t.max
            /\ \A r \in {t.morn, t.day, t.eve, t.night} : t.min <= r /\ r <= t.max

\* a day of three samples whose temperatures all differ, none of them 0 first
C9_Witness ==
    /\ fcPc = "done"
    /\ Len(fcOut) = 1
    /\ Len(fcDaily[1].items) = 3
    /\ fcOut[1].temp.min = 0 - 2
    /\ fcOut[1].temp.max = 3
    /\ fcOut[1].temp.day = 0
    /\ fcOut[1].temp.morn = 3

\* the selection by index, for one field
ByIndex(g, f) ==
    LET items == fcDaily[g].items
        n     == Len(items)
    IN  [ morn  |-> items[1][f],
          day   |-> items[(n \div 2) + 1][f],
          eve   |-> items[MinOf(n - 1, (n \div 2) + 2) + 1][f],
          night |-> items[n][f] ]

\* C10: morn, day, eve and night of a day record are the values of the
\* group's first sample, of the sample at index floor(n/2), of the sample at
\* index min(n-1, floor(n/2)+2) and of the last sample, for temp and for
\* feels_like, whatever the sample values are
C10_SelectedByIndex ==
    fcPc = "done" =>
        \A g \in DOMAIN fcOut :
            \A k \in {"morn", "day", "eve", "night"} :
                /\ fcOut[g].temp[k] = ByIndex(g, "temp")[k]
                /\ fcOut[g].feels_like[k] = ByIndex(g, "feels_like")[k]

\* a sample's pop as the average counts it, in hundredths
CountedPop(sample) == IF sample.pop = Undefined THEN 0 ELSE sample.pop[1]

RECURSIVE CountedSum(_)
CountedSum(items) ==
    IF items = <<>> THEN 0 ELSE CountedPop(Head(items)) + CountedSum(Tail(items))

GroupPops(g) == {CountedPop(fcDaily[g].items[i]) : i \in DOMAIN fcDaily[g].items}

\* C11: in every day record pop is the average of the pop of the day's
\* samples, a missing pop counted as 0: pop times the number of samples is
\* the sum of the counted values, so pop lies between the smallest and the
\* largest counted value, and within [0, 1] when every input pop is
C11_PopIsAverage ==
    fcPc = "done" =>
        \A g \in DOMAIN fcOut :
            LET pop == fcOut[g].pop
                n   == Len(SamplesOfDay(UtcDay(fcDaily[g].items[1].dt)))
            IN  /\ pop.den = n
                /\ n > 0
                /\ pop.num = CountedSum(SamplesOfDay(UtcDay(fcDaily[g].items[1].dt)))
                /\ \A x \in GroupPops(g) :
                      (\A y \in GroupPops(g) : x <= y) => x * pop.den <= pop.num
                /\ \A x \in GroupPops(g) :
                      (\A y \in GroupPops(g) : y <= x) => pop.num <= x * pop.den
                /\ 0 <= pop.num
                /\ pop.num <= 100 * pop.den

\* a day of three samples, one without pop, one of 0.5 and one of 1: the
\* average is 150 hundredths over 3
C11_Witness ==
    /\ fcPc = "done"
    /\ Len(fcOut) = 1
    /\ Len(fcDaily[1].items) = 3
    /\ fcList[1].pop = Undefined
    /\ fcList[2].pop = <<50>>
    /\ fcList[3].pop = <<100>>
    /\ fcOut[1].pop = [num |-> 150, den |-> 3]

\* C21: every day record is stamped with the start of its UTC calendar
\* day: its dt is a multiple of 86400, every sample of its group lies in
\* [dt, dt + 86400), and distinct records have distinct dt
C21_StampedWithStartOfDay ==
    fcPc = "done" =>
        /\ \A g \in DOMAIN fcOut :
              /\ fcOut[g].dt % SecPerDay = 0
              /\ \A i \in DOMAIN fcDaily[g].items :
                    /\ fcOut[g].dt <= fcDaily[g].items[i].dt
                    /\ fcDaily[g].items[i].dt < fcOut[g].dt + SecPerDay
        /\ \A g, h \in DOMAIN fcOut : g # h => fcOut[g].dt # fcOut[h].dt

\* two days, one before 1970, the later one with samples at its first and
\* at its last second
C21_Witness ==
    /\ fcPc = "done"
    /\ Len(fcOut) = 2
    /\ fcOut[1].dt = 0
    /\ fcOut[2].dt = 0 - SecPerDay
    /\ Len(fcDaily[1].items) = 2
    /\ fcDaily[1].items[1].dt = 86399
    /\ fcDaily[1].items[2].dt = 0

(***************************************************************************)
(* Claims about the cities table                                           *)
(***************************************************************************)

\* the ids of the cities whose weather the calls in batches have requested
RequestedIds(batches) ==
    UNION {{batches[b].input[i].id : i \in 1..Len(batches[b].input)} :
             b \in 1..Len(batches)}

\* C6: while the user changes nothing of the list, a step that ends a call
\* of loadWeatherData issues no weather request for a city that the ended
\* call has requested: a request that failed is not made again
C6_NoRetryOfFailedWeather ==
    [][(tEvents' = 0 /\ tBatches' # tBatches)
          => RequestedIds(tBatches') \cap RequestedIds(tBatches) = {}]_vars

\* C7: once every call of loadCities has been answered, the list shown is
\* the one that the responses give when they arrive in the order of the
\* calls, whatever the order in which they did arrive
C7_ListIndependentOfArrivalOrder ==
    tLoads = <<>> => Ids(ts.cities) = tInOrder

\* what a load is for, apart from its page
QueryOf(st) == <<st.debounced, st.sortField, st.sortDirection, st.filters>>

\* C14: whenever the search term, the sort field, the sort direction or the
\* filters used for loading change, a load is made and it is for page 1,
\* which replaces the list shown
C14_QueryChangeLoadsPageOne ==
    [][QueryOf(ts') # QueryOf(ts)
          => /\ tLoads' # <<>>
             /\ tLoads'[Len(tLoads')].params = LoadParams(ts')
             /\ tLoads'[Len(tLoads')].params.page = 1]_vars

\* the sort parameter of the request built from the state st
SortParam(st) == FetchCitiesRequest(LoadParams(st)).sort

\* handleSort has run: nothing else sets the sort field or direction
Sorted == ts'.sortField # ts.sortField \/ ts'.sortDirection # ts.sortDirection

\* C15: handleSort(f) with f the current sort field flips the direction and
\* keeps the field, with another f it sets the field to f and the direction
\* to asc; page becomes 1, and the request built from the state carries
\* sort = f when asc and -f when desc
C15_SortState ==
    [][Sorted =>
          /\ \/ /\ ts'.sortField = ts.sortField
                /\ ts'.sortDirection = (IF ts.sortDirection = "asc" THEN "desc" ELSE "asc")
             \/ /\ ts'.sortField # ts.sortField
                /\ ts'.sortDirection = "asc"
          /\ ts'.sortField \in TableSortFields
          /\ ts'.page = 1
          /\ SortParam(ts') = (IF ts'.sortDirection = "asc" THEN <<ts'.sortField>>
                               ELSE <<"-", ts'.sortField>>)
          /\ tLoads' # <<>>
          /\ FetchCitiesRequest(tLoads'[Len(tLoads')].params).sort = SortParam(ts')
          /\ tLoads'[Len(tLoads')].params.page = 1]_vars

\* the population header was clicked twice: the load in flight asks for
\* sort = -population
C15_Witness ==
    /\ ts.sortField = "population"
    /\ ts.sortDirection = "desc"
    /\ ts.page = 1
    /\ tLoads # <<>>
    /\ FetchCitiesRequest(tLoads[Len(tLoads)].params).sort = <<"-", "population">>

\* the refine parameters of the request built from the state st
RefineParams(st) == FetchCitiesRequest(LoadParams(st)).refine

\* the values that the menu of a field offers
Offered(field) ==
    IF field = "country" THEN {ts.cities[i].country : i \in DOMAIN ts.cities}
    ELSE TableLetters

\* the filter of field was set and no other one touched
FilterSet(field) ==
    /\ DOMAIN ts'.filters = DOMAIN ts.filters \cup {field}
    /\ ts'.filters[field] \in Offered(field)
    /\ \A g \in DOMAIN ts.filters \ {field} : ts'.filters[g] = ts.filters[g]

\* the filter of field was removed and no other one touched
FilterRemoved(field) ==
    /\ field \in DOMAIN ts.filters
    /\ DOMAIN ts'.filters = DOMAIN ts.filters \ {field}
    /\ \A g \in DOMAIN ts'.filters : ts'.filters[g] = ts.filters[g]

\* C16: handleFilter(field, value) sets the filter of that field and
\* clearFilter(field) removes it, each leaving every other filter as it
\* was; page becomes 1, and the request built from the state carries one
\* refine parameter for every filter with a non-empty value and no other
C16_FilterState ==
    [][ts'.filters # ts.filters =>
          /\ \E field \in {"country", "name"} : FilterSet(field) \/ FilterRemoved(field)
          /\ ts'.page = 1
          /\ DOMAIN RefineParams(ts') = {f \in DOMAIN ts'.filters : ts'.filters[f] # ""}
          /\ \A f \in DOMAIN RefineParams(ts') : RefineParams(ts')[f] = ts'.filters[f]
          /\ tLoads' # <<>>
          /\ FetchCitiesRequest(tLoads'[Len(tLoads')].params).refine = RefineParams(ts')
          /\ tLoads'[Len(tLoads')].params.page = 1]_vars

\* a country and a letter were set and a load was made that refines by
\* both; then the country was removed and the letter stayed
C16_Witness ==
    /\ DOMAIN ts.filters = {"name"}
    /\ \E i \in DOMAIN tLoads : DOMAIN tLoads[i].params.filters = {"country", "name"}
    /\ tLoads[Len(tLoads)].params.filters = ts.filters

AllHaveWeather == \A i \in DOMAIN ts.cities : ts.cities[i].weather # NoWeather

\* nothing of the weather is left to do
WeatherQuiet == AllHaveWeather /\ ~ts.weatherLoading /\ tBatches = <<>>

\* C17: when every weather request is answered and the user has stopped,
\* every city of the list shown eventually has weather; from then on
\* weatherLoading is FALSE and no weather request is made
C17_WeatherAppearsAndQuiesces == <>[]WeatherQuiet

\* with an API key, the three cities of two pages have the weather that the
\* service sent, and nothing is in flight
C17_Witness ==
    /\ apiKey
    /\ Len(ts.cities) = 3
    /\ AllFromUpstream
    /\ \A i \in DOMAIN ts.cities : ts.cities[i].weather # NoWeather
    /\ \A i \in DOMAIN ts.cities : ts.cities[i].weather[1].temp = 20
    /\ ~ts.weatherLoading
    /\ tBatches = <<>>
    /\ tLoads = <<>>

\* C23: the displayed list holds no two cities with the same id
C23_RowIdsUnique ==
    \A i, j \in DOMAIN ts.cities : i # j => ts.cities[i].id # ts.cities[j].id

\* C24: loading is true whenever a call of loadCities awaits its response
C24_LoadingTracksRequests == tLoads # <<>> => ts.loading

\* the search box holds a name that selectSuggestion put there: the user
\* types the terms of TypedTerms only, so no edit has followed the selection
SuggestionSelected == ts.searchTerm \notin TypedTerms

\* C25: after selectSuggestion showSuggestions is false and stays false
\* until the user next edits the search box, however the suggestion
\* requests complete
C25_DismissedStaysDismissed == SuggestionSelected => ~ts.showSuggestions

\* C26: at most one call of fetchWeatherForCities made by loadWeatherData
\* is pending
C26_OneWeatherBatch == Len(tBatches) <= 1

\* a call is pending while the list holds a city without weather that the
\* call did not ask for: the list changed and the effect held back
C26_Witness ==
    /\ Len(tBatches) = 1
    /\ ts.weatherLoading
    /\ \E i \in DOMAIN ts.cities :
          /\ ts.cities[i].weather = NoWeather
          /\ \A j \in DOMAIN tBatches[1].input :
                tBatches[1].input[j].id # ts.cities[i].id

SeqRange(seq) == {seq[i] : i \in DOMAIN seq}

\* the calls of loadWeatherData that the step starts
BatchesStarted == {tBatches'[k] : k \in DOMAIN tBatches'} \ SeqRange(tBatches)

\* C27: a call of loadWeatherData asks only for cities of the list of its
\* render that have no weather; and the step that applies its result keeps
\* the length, the order and the ids of the list and every city whose id
\* the call did not ask for
C27_WeatherOnlyForCitiesWithout ==
    [][/\ \A b \in BatchesStarted :
             \A j \in DOMAIN b.input :
                 /\ b.input[j] \in SeqRange(ts'.cities)
                 /\ b.input[j].weather = NoWeather
       /\ WeatherAnsweredStep =>
             /\ Ids(ts'.cities) = Ids(ts.cities)
             /\ \A i \in DOMAIN ts.cities :
                   ts.cities[i].id \notin SeqRange(Ids(tBatches[1].input))
                       => ts'.cities[i] = ts.cities[i]]_vars

\* the first city of the list has weather, and a call is pending that asks
\* for the others only
C27_Witness ==
    /\ Len(tBatches) = 1
    /\ Len(ts.cities) >= 2
    /\ ts.cities[1].weather # NoWeather
    /\ tBatches[1].input = CitiesToUpdate(ts.cities)
    /\ Len(tBatches[1].input) < Len(ts.cities)

\* C19: every step that increases page increases it by exactly 1 and
\* starts in a state where no call of loadCities awaits its response and
\* hasMore is true
C19_PageIncreasedOnlyWhenIdle ==
    [][ts'.page > ts.page =>
          /\ ts'.page = ts.page + 1
          /\ tLoads = <<>>
          /\ ts.hasMore]_vars

(***************************************************************************)
(* Claims about WeatherDisplay                                             *)
(***************************************************************************)
\* a load has completed and left both the current conditions and the
\* forecast set
LoadCompleted ==
    /\ ~wd.loading
    /\ wd.currentWeather # Null
    /\ wd.forecast # Null

\* while loading is false no call of fetchWeather is in progress, so the
\* display never has two loads at once
OneLoadAtATime == ~wd.loading => fwCall.pc = "idle"

\* C18: whenever WeatherDisplay is loading (after it is mounted and after
\* each toggle of the units), the load eventually completes with loading
\* false and both currentWeather and forecast set, whatever the two upstream
\* requests do; and the "No Data" view is never rendered
C18_AlwaysEndsUpShowingData ==
    /\ [](wd.loading => <>LoadCompleted)
    /\ [](DisplayView(wd) # "no_data")

\* the units were toggled, the forecast request of the second load failed,
\* and the load completed showing data
C18_Witness ==
    /\ wd.units = "imperial"
    /\ fwSeen.current = "ok"
    /\ fwSeen.forecast = "not_ok"
    /\ LoadCompleted
    /\ DisplayView(wd) = "data"

C20_ErrorAlwaysNull == ts.error = "null" /\ wd.error = "null"

\* a city was opened from the loaded table, the display's current-weather
\* request failed, and the load completed with no error set
C20_Witness ==
    /\ ~TableShown
    /\ fwSeen.current = "network_error"
    /\ ~wd.loading
    /\ wd.error = "null"
    /\ ts.error = "null"

====
